---- MODULE Spec2Model ----
(***************************************************************************)
(* Model of the single-threaded echo server of src/main.py: the selector   *)
(* registration table, the listening socket, the accepted connection       *)
(* sockets and the dispatch loop of main(), together with the clients and  *)
(* the network that drive it.                                              *)
(*                                                                         *)
(* The server is one coroutine.  pc is its position:                       *)
(*   "start"    before server_socket() has run                             *)
(*   "listen"   inside the async-with body, before listening_socket.listen *)
(*   "poll"     at selector.select(timeout=0.1)                            *)
(*   "dispatch" in the for-loop over the batch returned by select          *)
(*   "sendall"  inside await sock_sendall(...) of process_client_io        *)
(*   "finally"  an exception is propagating out of the loop                *)
(*   "exited"   server_socket()'s finally block has run; main() is over    *)
(*                                                                         *)
(* Spec is the server with its clients; FairSpec adds that the server      *)
(* coroutine runs whenever it can; SpecMux is the selector on its own,     *)
(* driven by register and unregister calls; SpecTag is the server in a     *)
(* process where other code registers a descriptor of its own with the     *)
(* shared selector; SpecChunk is the server with clients whose writes are  *)
(* about as long as one read takes.                                        *)
(***************************************************************************)
EXTENDS Integers, Sequences, FiniteSets, TLC

\* ------------------------------------------------------------------ bounds
MaxConns == 3      \* client connections attempted in one run
MaxWrites == 1     \* writes a client makes on its connection
SndBufCap == 1     \* echo payloads a connection's send buffer holds
MaxResets == 1     \* connections the peers reset in one run
MaxCloses == 1     \* connections the peers end (FIN) in one run
MaxMuxFd == 3      \* descriptors handed to the multiplexer in SpecMux
MuxSteps == 6      \* multiplexer calls made in one run of SpecMux
MaxChunkConns == 1 \* client connections attempted in one run of SpecChunk

\* ------------------------------------------------------- program constants
RecvMax == 1024    \* sock_recv(client_connection_socket, 1024)

Listener == 0                       \* the listening socket object
Conns == 1..MaxConns                \* the connection socket objects
NoFd == -1                          \* fileno() of a closed socket
FdPool == 1..(MaxConns + 1)         \* descriptor numbers the kernel hands out
TagAccept == "client_connected"
TagData == "data_received"

\* The selector of line 30 is a module-level object: any code in the process
\* can register a descriptor of its own with it, under data of its own.  SpecTag
\* has one such descriptor, which is always readable.
ForeignObj == MaxConns + 1           \* a file object that is not the server's
ForeignFd == MaxConns + 2            \* its descriptor number
TagForeign == "timer_expired"        \* its data: neither of the server's tags

\* What a client may pass to sendall(): "42", and "é" (the two bytes C3 A9).
Payloads == { <<52, 50>>, <<195, 169>> }

\* What a client of SpecChunk may pass to sendall(): text whose length is
\* around the size of one read, in "a" (61) and "é" (C3 A9).
Rep(b, n) == [i \in 1..n |-> b]
LongPayloads ==
    { Rep(97, RecvMax),
      Rep(97, RecvMax + 1),
      Rep(97, 2 * RecvMax + 1),
      << 195, 169 >> \o Rep(97, RecvMax - 1),
      Rep(97, RecvMax - 1) \o << 195, 169 >> }

PeerName(c) == << "127.0.0.1", 40000 + c >>

VARIABLES
    pc,        \* the server coroutine's position
    lsock,     \* the listening socket: [state, fd, nonblocking]
    table,     \* the selector's registrations: a set of SelectorKey records
    events,    \* the part of the batch returned by select() not yet dispatched
    sock,      \* sock[c]: "unborn", "queued" (accept queue), "open", "closed"
    fdOf,      \* fdOf[c]: the descriptor number of connection socket c, or NoFd
    nonblock,  \* nonblock[c]: setblocking(False) was called on c
    acceptq,   \* the listening socket's queue of established connections
    cli,       \* cli[c]: "idle", "connected", "shut" (FIN sent), "reset"
    rbuf,      \* rbuf[c]: the bytes the client sent on c that the server has not read
    sndbuf,    \* sndbuf[c]: echo payloads written to c the client has not read
    pending,   \* the payload sock_sendall is sending: [conn, payload], or NoPending
    exc,       \* the exception that left the loop: [type, call, conn], or NoExc
    sent,      \* history: sent[c] is the sequence of the client's writes on c
    reads,     \* history: reads[c] is the sequence of non-empty recv results on c
    written,   \* history: written[c] is the sequence of payloads written to c
    ops,       \* the socket and selector calls made by the step just taken
    muxlast,   \* SpecMux: the outcome of the last multiplexer call
    muxn       \* SpecMux: multiplexer calls made so far

vars == << pc, lsock, table, events, sock, fdOf, nonblock, acceptq, cli, rbuf, sndbuf,
           pending, exc, sent, reads, written, ops, muxlast, muxn >>

srvVars == << pc, lsock, table, events, sock, fdOf, nonblock, pending, exc >>
muxVars == << muxlast, muxn >>

NoPending == [conn |-> 0, payload |-> << >>]
NoExc == [type |-> "none", call |-> "none", conn |-> 0]

\* ------------------------------------------------------------- helpers
Min(S) == CHOOSE x \in S : \A y \in S : x <= y

RECURSIVE Perms(_)
Perms(S) ==
    IF S = {} THEN { << >> }
    ELSE UNION { { << x >> \o p : p \in Perms(S \ {x}) } : x \in S }

RECURSIVE Concat(_)
Concat(ss) == IF ss = << >> THEN << >> ELSE Head(ss) \o Concat(Tail(ss))

IsPrefix(s, t) == Len(s) <= Len(t) /\ SubSeq(t, 1, Len(s)) = s

Take(s, n) == SubSeq(s, 1, IF n < Len(s) THEN n ELSE Len(s))
Drop(s, n) == SubSeq(s, (IF n < Len(s) THEN n ELSE Len(s)) + 1, Len(s))

\* ------------------------------------------------- bytes.decode / str.encode
\* bytes.decode() of lines 97 and 99: strict UTF-8.  The result is
\* [ok |-> TRUE, cps |-> the code points] or, when the bytes are not valid
\* UTF-8 (UnicodeDecodeError), [ok |-> FALSE, cps |-> << >>].
IsCont(b) == b >= 128 /\ b <= 191

\* The decoder reads the bytes left to right, character by character.  A byte
\* that is not a continuation byte always starts a character, so input longer
\* than eight bytes is cut in two at such a byte near its middle and the halves
\* are decoded on their own: the same result, by a recursion of logarithmic
\* depth.  Four continuation bytes in a row are ill-formed wherever they are.
RECURSIVE Utf8Decode(_)
Utf8Decode(bs) ==
    IF bs = << >> THEN [ok |-> TRUE, cps |-> << >>]
    ELSE IF Len(bs) > 8
    THEN
      LET mid == Len(bs) \div 2 + 1
          back == { k \in 0..3 : ~IsCont(bs[mid - k]) }
      IN IF back = {} THEN [ok |-> FALSE, cps |-> << >>]
         ELSE LET m == mid - Min(back)
                  l == Utf8Decode(SubSeq(bs, 1, m - 1))
                  r == Utf8Decode(SubSeq(bs, m, Len(bs)))
              IN IF l.ok /\ r.ok THEN [ok |-> TRUE, cps |-> l.cps \o r.cps]
                 ELSE [ok |-> FALSE, cps |-> << >>]
    ELSE
      LET b == Head(bs)
          n == IF b < 128 THEN 1
               ELSE IF b >= 194 /\ b <= 223 THEN 2
               ELSE IF b >= 224 /\ b <= 239 THEN 3
               ELSE IF b >= 240 /\ b <= 244 THEN 4
               ELSE 0
          wellFormed ==
               /\ n > 0
               /\ Len(bs) >= n
               /\ \A i \in 2..n : IsCont(bs[i])
               /\ (b = 224 => bs[2] >= 160)       \* no overlong 3-byte form
               /\ (b = 237 => bs[2] <= 159)       \* no surrogates
               /\ (b = 240 => bs[2] >= 144)       \* no overlong 4-byte form
               /\ (b = 244 => bs[2] <= 143)       \* at most U+10FFFF
          cp == IF n = 1 THEN b
                ELSE IF n = 2 THEN (b - 192) * 64 + (bs[2] - 128)
                ELSE IF n = 3 THEN (b - 224) * 4096 + (bs[2] - 128) * 64 + (bs[3] - 128)
                ELSE (b - 240) * 262144 + (bs[2] - 128) * 4096
                     + (bs[3] - 128) * 64 + (bs[4] - 128)
      IN IF ~wellFormed THEN [ok |-> FALSE, cps |-> << >>]
         ELSE LET rest == Utf8Decode(Drop(bs, n))
              IN IF rest.ok THEN [ok |-> TRUE, cps |-> << cp >> \o rest.cps]
                 ELSE [ok |-> FALSE, cps |-> << >>]

\* str.encode() of line 102: UTF-8, code point by code point (long input
\* half by half).
RECURSIVE Utf8Encode(_)
Utf8Encode(cps) ==
    IF cps = << >> THEN << >>
    ELSE IF Len(cps) > 8
    THEN LET h == Len(cps) \div 2
         IN Utf8Encode(SubSeq(cps, 1, h)) \o Utf8Encode(SubSeq(cps, h + 1, Len(cps)))
    ELSE
      LET cp == Head(cps)
          enc == IF cp < 128 THEN << cp >>
                 ELSE IF cp < 2048 THEN << 192 + (cp \div 64), 128 + (cp % 64) >>
                 ELSE IF cp < 65536
                      THEN << 224 + (cp \div 4096), 128 + ((cp \div 64) % 64),
                              128 + (cp % 64) >>
                 ELSE << 240 + (cp \div 262144), 128 + ((cp \div 4096) % 64),
                         128 + ((cp \div 64) % 64), 128 + (cp % 64) >>
      IN enc \o Utf8Encode(Tail(cps))

\* The f-string of line 99, encoded (line 102): the label naming the peer,
\* then the decoded text.  Only called on data that decodes.
EchoPayload_Lossy(peer, data) ==
    [prefix |-> "Client=", peer |-> peer, sep |-> "| Echo: ",
     body |-> Utf8Encode(Tail(Utf8Decode(data).cps))]

EchoPayload(peer, data) ==
    [prefix |-> "Client=", peer |-> peer, sep |-> "| Echo: ",
     body |-> Utf8Encode(Utf8Decode(data).cps)]

\* "Client=<peer>| Echo: " followed by b verbatim.
Labelled(peer, b) ==
    [prefix |-> "Client=", peer |-> peer, sep |-> "| Echo: ", body |-> b]

\* ------------------------------------------------------------ the selector
\* selectors.DefaultSelector (line 30) keeps one SelectorKey per descriptor
\* number.  A call returns [err, table]: err is "none", or the exception the
\* call raises, and then the table is the one it was given.
Key(obj, fd, tag) == [fileobj |-> obj, fd |-> fd, data |-> tag]

RegisteredFds(t) == { k.fd : k \in t }
IsRegistered(t, obj) == \E k \in t : k.fileobj = obj

register_NoCheck(t, obj, fd, tag) ==
    IF fd = NoFd THEN [err |-> "ValueError", table |-> t]
    ELSE [err |-> "none", table |-> t \cup { Key(obj, fd, tag) }]

register(t, obj, fd, tag) ==
    IF fd = NoFd THEN [err |-> "ValueError", table |-> t]
    ELSE IF fd \in RegisteredFds(t)
         THEN [err |-> "KeyError: already registered", table |-> t]
    ELSE [err |-> "none", table |-> t \cup { Key(obj, fd, tag) }]

\* unregister looks the descriptor number up; for a closed socket (fileno()
\* is -1) it falls back to a search for the object itself.
LookupFd(t, obj, fd) ==
    IF fd # NoFd THEN fd
    ELSE IF IsRegistered(t, obj) THEN (CHOOSE k \in t : k.fileobj = obj).fd
    ELSE NoFd

unregister(t, obj, fd) ==
    LET f == LookupFd(t, obj, fd)
    IN IF f = NoFd THEN [err |-> "ValueError", table |-> t]
       ELSE IF f \notin RegisteredFds(t)
            THEN [err |-> "KeyError: not registered", table |-> t]
       ELSE [err |-> "none", table |-> { k \in t : k.fd # f }]

\* ------------------------------------------------------------ the kernel
OpenFds == { fdOf[c] : c \in Conns } \cup { lsock.fd }
FreeFd == Min(FdPool \ OpenFds)       \* the lowest descriptor number not in use

\* A connection is readable: bytes have arrived, or the peer's FIN has (after
\* all its bytes), or the peer reset the connection.  Unread bytes reach the
\* receive buffer in order, segment by segment; a connection with unread bytes
\* is taken to be readable, and how many of them have arrived is settled when
\* the server reads (Recv).
Eof(c) == cli[c] = "shut" /\ rbuf[c] = << >>
Readable(obj) ==
    IF obj = Listener THEN lsock.state = "listening" /\ acceptq # << >>
    ELSE sock[obj] = "open" /\ (rbuf[obj] # << >> \/ Eof(obj) \/ cli[obj] = "reset")

\* What one step logs in ops, call by call: the call, the socket it is made
\* on, whether that socket was registered with the selector at that moment, and
\* the number of bytes a recv returned (-1: it raised).
OpN(name, obj, reg, n) == [op |-> name, s |-> obj, reg |-> reg, n |-> n]
Op(name, obj, reg) == OpN(name, obj, reg, 0)

\* ---------------------------------------------------------------- Init
Init ==
    /\ pc = "start"
    /\ lsock = [state |-> "none", fd |-> NoFd, nonblocking |-> FALSE]
    /\ table = {}
    /\ events = << >>
    /\ sock = [c \in Conns |-> "unborn"]
    /\ fdOf = [c \in Conns |-> NoFd]
    /\ nonblock = [c \in Conns |-> FALSE]
    /\ acceptq = << >>
    /\ cli = [c \in Conns |-> "idle"]
    /\ rbuf = [c \in Conns |-> << >>]
    /\ sndbuf = [c \in Conns |-> 0]
    /\ pending = NoPending
    /\ exc = NoExc
    /\ sent = [c \in Conns |-> << >>]
    /\ reads = [c \in Conns |-> << >>]
    /\ written = [c \in Conns |-> << >>]
    /\ ops = << >>
    /\ muxlast = [call |-> "none", fd |-> NoFd, err |-> "none", before |-> {}]
    /\ muxn = 0

netVars == << acceptq, cli, rbuf, sndbuf >>
histVars == << sent, reads, written >>

\* ------------------------------------------------------ the server: startup
\* server_socket(), lines 42-51: socket, SO_REUSEADDR, bind, setblocking(False),
\* selector.register(listening_socket, EVENT_READ, "client_connected").
ServerSocketEnter ==
    /\ pc = "start"
    /\ LET fd == FreeFd
           r == register(table, Listener, fd, TagAccept)
       IN /\ lsock' = [state |-> "bound", fd |-> fd, nonblocking |-> TRUE]
          /\ table' = r.table
          /\ ops' = << Op("socket", Listener, FALSE),
                       Op("bind", Listener, FALSE),
                       Op("setblocking", Listener, FALSE),
                       Op("register", Listener, IsRegistered(table, Listener)) >>
          /\ IF r.err = "none"
             THEN pc' = "listen" /\ exc' = exc
             ELSE pc' = "exited"       \* raised before the try of line 53
                  /\ exc' = [type |-> r.err, call |-> "register", conn |-> Listener]
    /\ UNCHANGED << events, sock, fdOf, nonblock, pending, netVars, histVars, muxVars >>

\* main(), line 113: listening_socket.listen().
Listen_Skip ==
    /\ pc = "listen"
    /\ pc' = "poll"
    /\ ops' = << >>
    /\ UNCHANGED << lsock, table, events, sock, fdOf, nonblock, pending, exc,
                    netVars, histVars, muxVars >>

Listen ==
    /\ pc = "listen"
    /\ lsock' = [lsock EXCEPT !.state = "listening"]
    /\ pc' = "poll"
    /\ ops' = << Op("listen", Listener, IsRegistered(table, Listener)) >>
    /\ UNCHANGED << table, events, sock, fdOf, nonblock, pending, exc,
                    netVars, histVars, muxVars >>

\* --------------------------------------------------- the server: the loop
\* selector.select(timeout=0.1), line 116: the keys whose socket is readable,
\* in an order the selector chooses; an empty list when the timeout expires.
ReadyKeys ==
    { k \in table :
        IF k.fileobj = Listener THEN lsock.fd = k.fd /\ Readable(Listener)
        ELSE IF k.fileobj \in Conns
             THEN fdOf[k.fileobj] = k.fd /\ Readable(k.fileobj)
        ELSE k.fileobj = ForeignObj }

Select ==
    /\ pc = "poll"
    /\ \E batch \in Perms(ReadyKeys) : events' = batch
    /\ pc' = "dispatch"
    /\ ops' = << Op("select", Listener, IsRegistered(table, Listener)) >>
    /\ UNCHANGED << lsock, table, sock, fdOf, nonblock, pending, exc,
                    netVars, histVars, muxVars >>

\* The for-loop of line 117 has consumed the batch: back to line 116.
LoopBack_Early ==
    /\ pc = "dispatch"
    /\ pc' = "poll"
    /\ ops' = << >>
    /\ UNCHANGED << lsock, table, events, sock, fdOf, nonblock, pending, exc,
                    netVars, histVars, muxVars >>

LoopBack ==
    /\ pc = "dispatch"
    /\ events = << >>
    /\ pc' = "poll"
    /\ ops' = << >>
    /\ UNCHANGED << lsock, table, events, sock, fdOf, nonblock, pending, exc,
                    netVars, histVars, muxVars >>

\* accept_client, lines 77-79: selector.register(client_connection_socket,
\* selectors.EVENT_READ, data="data_received").
RegisterConn_AcceptTag(t, c, fd) == register(t, c, fd, TagAccept)

RegisterConn_Skip(t, c, fd) == [err |-> "none", table |-> t]

RegisterConn(t, c, fd) == register(t, c, fd, TagData)

\* case "client_connected", lines 119-133, with accept_client, lines 60-81:
\* sock_accept, setblocking(False), selector.register(..., "data_received"),
\* then getpeername() for the log lines, which raises OSError (ENOTCONN) on a
\* connection its peer has reset.
AcceptClient ==
    /\ pc = "dispatch"
    /\ events # << >>
    /\ Head(events).data = TagAccept
    /\ acceptq # << >>
    /\ LET c == Head(acceptq)
           fd == FreeFd
           r == RegisterConn(table, c, fd)
           err == IF r.err # "none" THEN r.err
                  ELSE IF cli[c] = "reset" THEN "OSError"
                  ELSE "none"
       IN /\ acceptq' = Tail(acceptq)
          /\ sock' = [sock EXCEPT ![c] = "open"]
          /\ fdOf' = [fdOf EXCEPT ![c] = fd]
          /\ nonblock' = [nonblock EXCEPT ![c] = TRUE]
          /\ table' = r.table
          /\ events' = Tail(events)
          /\ ops' = << Op("accept", Listener, IsRegistered(table, Listener)),
                       Op("setblocking", c, IsRegistered(table, c)),
                       Op("register", c, IsRegistered(table, c)) >>
          /\ IF err = "none"
             THEN pc' = "dispatch" /\ exc' = exc
             ELSE pc' = "finally"
                  /\ exc' = [type |-> err,
                             call |-> IF r.err # "none" THEN "register" ELSE "getpeername",
                             conn |-> c]
    /\ UNCHANGED << lsock, pending, cli, rbuf, sndbuf, histVars, muxVars >>

\* sock_recv(client_connection_socket, 1024), line 92, when `arrived` of the
\* unread bytes are in the receive buffer: up to RecvMax of them; b"" at end of
\* stream; ConnectionResetError on a reset connection with nothing left to
\* read; OSError on a socket that is not open.  "block" is a read that finds
\* nothing and waits.
Recv(c, arrived) ==
    IF sock[c] # "open" THEN [kind |-> "OSError", data |-> << >>]
    ELSE IF arrived > 0
         THEN [kind |-> "data",
               data |-> Take(rbuf[c], IF arrived < RecvMax THEN arrived ELSE RecvMax)]
    ELSE IF cli[c] = "reset" THEN [kind |-> "ConnectionResetError", data |-> << >>]
    ELSE IF Eof(c) THEN [kind |-> "eof", data |-> << >>]
    ELSE [kind |-> "block", data |-> << >>]

\* Lines 106-107: selector.unregister(sock), then sock.close().  The result
\* names the exception raised, the table left, whether the socket was closed,
\* and the calls made in order.
CloseConnection_NoUnregister(t, c) ==
    [err |-> "none", table |-> t, closed |-> TRUE,
     calls |-> << Op("close", c, IsRegistered(t, c)) >>]

CloseConnection_Twice(t, c) ==
    LET r == unregister(t, c, fdOf[c])
        again == unregister(r.table, c, fdOf[c])
    IN [err |-> again.err, table |-> again.table, closed |-> again.err = "none",
        calls |-> << Op("unregister", c, IsRegistered(t, c)),
                     Op("unregister", c, IsRegistered(r.table, c)) >>]

CloseConnection(t, c) ==
    LET r == unregister(t, c, fdOf[c])
    IN [err |-> r.err, table |-> r.table, closed |-> r.err = "none",
        calls |-> << Op("unregister", c, IsRegistered(t, c)) >>
                  \o (IF r.err = "none"
                      THEN << Op("close", c, IsRegistered(r.table, c)) >>
                      ELSE << >>)]

\* What process_client_io does once sock_recv has returned res (lines 95-107),
\* up to the call of sock_sendall: [err, table, closed, payload, calls].
\* Line 97 evaluates getpeername() (OSError on a reset connection) and then
\* buffer_data.decode() (UnicodeDecodeError).
AfterRecv_UnregisterFirst(t, c, res) ==
    LET peerGone == cli[c] = "reset"
        dec == Utf8Decode(res.data)
        cl == CloseConnection(t, c)
    IN IF res.kind = "data"
       THEN [err |-> IF peerGone THEN "OSError"
                     ELSE IF ~dec.ok THEN "UnicodeDecodeError" ELSE "none",
             table |-> unregister(t, c, fdOf[c]).table, closed |-> FALSE,
             payload |-> IF ~peerGone /\ dec.ok
                         THEN << EchoPayload(PeerName(c), res.data) >> ELSE << >>,
             calls |-> << Op("unregister", c, IsRegistered(t, c)) >>]
       ELSE [err |-> cl.err, table |-> cl.table, closed |-> cl.closed,
             payload |-> << >>, calls |-> cl.calls]

AfterRecv_EchoOnClose(t, c, res) ==
    LET peerGone == cli[c] = "reset"
        dec == Utf8Decode(res.data)
        cl == CloseConnection(t, c)
    IN IF res.kind = "data"
       THEN [err |-> IF peerGone THEN "OSError"
                     ELSE IF ~dec.ok THEN "UnicodeDecodeError" ELSE "none",
             table |-> t, closed |-> FALSE,
             payload |-> IF ~peerGone /\ dec.ok
                         THEN << EchoPayload(PeerName(c), res.data) >> ELSE << >>,
             calls |-> << >>]
       ELSE [err |-> cl.err, table |-> cl.table, closed |-> cl.closed,
             payload |-> << EchoPayload(PeerName(c), res.data) >>, calls |-> cl.calls]

AfterRecv(t, c, res) ==
    LET peerGone == cli[c] = "reset"
        dec == Utf8Decode(res.data)
        cl == CloseConnection(t, c)
    IN IF res.kind = "data"
       THEN [err |-> IF peerGone THEN "OSError"
                     ELSE IF ~dec.ok THEN "UnicodeDecodeError" ELSE "none",
             table |-> t, closed |-> FALSE,
             payload |-> IF ~peerGone /\ dec.ok
                         THEN << EchoPayload(PeerName(c), res.data) >> ELSE << >>,
             calls |-> << >>]
       ELSE [err |-> cl.err, table |-> cl.table, closed |-> cl.closed,
             payload |-> << >>, calls |-> cl.calls]

\* case "data_received", lines 134-137, with process_client_io, lines 84-107,
\* up to the call of sock_sendall.  The socket served is key.fileobj.
ServedConn(key) == key.fileobj

\* bulk: all the unread bytes have arrived by the time the server reads;
\* otherwise any number of them, at least one.
ProcessClientIoWhen(bulk) ==
    /\ pc = "dispatch"
    /\ events # << >>
    /\ Head(events).data = TagData
    /\ \E arrived \in (IF bulk THEN { Len(rbuf[ServedConn(Head(events))]) }
                       ELSE 0..Len(rbuf[ServedConn(Head(events))])) :
       LET c == ServedConn(Head(events))
           res == Recv(c, arrived)
           raised == res.kind \notin {"data", "eof"}
           after == AfterRecv(table, c, res)
           err == IF raised THEN res.kind ELSE after.err
       IN /\ (arrived = 0) = (rbuf[c] = << >>)
          /\ res.kind # "block"
          /\ events' = Tail(events)
          /\ rbuf' = [rbuf EXCEPT ![c] = Drop(rbuf[c], Len(res.data))]
          /\ reads' = [reads EXCEPT ![c] =
                         IF res.kind = "data" THEN Append(reads[c], res.data)
                         ELSE reads[c]]
          /\ ops' = << OpN("recv", c, IsRegistered(table, c),
                               IF raised THEN -1 ELSE Len(res.data)) >>
                    \o (IF raised THEN << >> ELSE after.calls)
          /\ table' = IF raised THEN table ELSE after.table
          /\ sock' = IF ~raised /\ after.closed THEN [sock EXCEPT ![c] = "closed"]
                     ELSE sock
          /\ fdOf' = IF ~raised /\ after.closed THEN [fdOf EXCEPT ![c] = NoFd]
                     ELSE fdOf
          /\ IF err # "none"
             THEN /\ pc' = "finally"
                  /\ exc' = [type |-> err,
                             call |-> IF raised THEN "recv"
                                      ELSE IF err = "OSError" THEN "getpeername"
                                      ELSE IF err = "UnicodeDecodeError" THEN "decode"
                                      ELSE "unregister",
                             conn |-> c]
                  /\ pending' = pending
             ELSE IF after.payload # << >>
             THEN /\ pc' = "sendall"
                  /\ exc' = exc
                  /\ pending' = [conn |-> c, payload |-> after.payload[1]]
             ELSE /\ pc' = "dispatch"
                  /\ exc' = exc
                  /\ pending' = pending
    /\ UNCHANGED << lsock, nonblock, acceptq, cli, sndbuf, sent, written, muxVars >>

ProcessClientIo == ProcessClientIoWhen(FALSE)

ProcessClientIoBulk == ProcessClientIoWhen(TRUE)

\* await sock_sendall(client_connection_socket, data=...), lines 101-103.  The
\* coroutine stays here until the whole payload is in the connection's send
\* buffer, which takes room in it; a reset connection raises instead.
SendTarget_FirstOpen(p) == Min({ c \in Conns : sock[c] = "open" } \cup { p.conn })

SendTarget(p) == p.conn

SendAll ==
    /\ pc = "sendall"
    /\ LET c == pending.conn
           d == SendTarget(pending)
       IN \/ /\ sock[d] # "open" \/ cli[d] = "reset"
             /\ pc' = "finally"
             /\ exc' = [type |-> IF sock[d] # "open" THEN "OSError"
                                 ELSE "ConnectionResetError",
                        call |-> "send", conn |-> c]
             /\ ops' = << Op("send", d, IsRegistered(table, d)) >>
             /\ UNCHANGED << sndbuf, written, pending >>
          \/ /\ sock[d] = "open" /\ cli[d] # "reset"
             /\ sndbuf[d] < SndBufCap
             /\ sndbuf' = [sndbuf EXCEPT ![d] = @ + 1]
             /\ written' = [written EXCEPT ![d] = Append(@, pending.payload)]
             /\ pending' = NoPending
             /\ pc' = "dispatch"
             /\ exc' = exc
             /\ ops' = << Op("send", d, IsRegistered(table, d)) >>
    /\ UNCHANGED << lsock, table, events, sock, fdOf, nonblock, acceptq, cli, rbuf,
                    sent, reads, muxVars >>

\* The exception leaves main(): server_socket()'s finally block, lines 55-57,
\* unregisters the listening socket and closes it.
ServerSocketExit_CloseOnly ==
    /\ pc = "finally"
    /\ lsock' = [lsock EXCEPT !.state = "closed", !.fd = NoFd]
    /\ ops' = << Op("close", Listener, IsRegistered(table, Listener)) >>
    /\ pc' = "exited"
    /\ UNCHANGED << table, events, sock, fdOf, nonblock, pending, exc,
                    netVars, histVars, muxVars >>

ServerSocketExit ==
    /\ pc = "finally"
    /\ LET r == unregister(table, Listener, lsock.fd)
       IN /\ table' = r.table
          /\ lsock' = IF r.err = "none"
                      THEN [lsock EXCEPT !.state = "closed", !.fd = NoFd]
                      ELSE lsock
          /\ ops' = << Op("unregister", Listener, IsRegistered(table, Listener)) >>
                    \o (IF r.err = "none"
                        THEN << Op("close", Listener, IsRegistered(r.table, Listener)) >>
                        ELSE << >>)
    /\ pc' = "exited"
    /\ UNCHANGED << events, sock, fdOf, nonblock, pending, exc,
                    netVars, histVars, muxVars >>

\* ------------------------------------------------ the clients and the network
\* The process is alive: clients can reach it.
Alive == pc # "exited"

\* create_client_socket() of src/client.py: connect() succeeds once the server
\* listens; the connection waits in the accept queue.  Connections are numbered
\* in the order they are made.
ClientConnect(c) ==
    /\ Alive
    /\ lsock.state = "listening"
    /\ cli[c] = "idle"
    /\ \A d \in Conns : d < c => cli[d] # "idle"
    /\ cli' = [cli EXCEPT ![c] = "connected"]
    /\ sock' = [sock EXCEPT ![c] = "queued"]
    /\ acceptq' = Append(acceptq, c)
    /\ ops' = << >>
    /\ UNCHANGED << pc, lsock, table, events, fdOf, nonblock, pending, exc,
                    rbuf, sndbuf, histVars, muxVars >>

\* client_socket.sendall(data.encode()) of src/client.py, for any bytes b.
ClientSend(c, b) ==
    /\ Alive
    /\ cli[c] = "connected"
    /\ Len(sent[c]) < MaxWrites
    /\ rbuf' = [rbuf EXCEPT ![c] = @ \o b]
    /\ sent' = [sent EXCEPT ![c] = Append(@, b)]
    /\ ops' = << >>
    /\ UNCHANGED << srvVars, acceptq, cli, sndbuf, reads, written, muxVars >>

\* client_socket.recv(1024) of src/client.py: the client takes an echo payload
\* out of the connection, which makes room in the server's send buffer.
ClientRecv(c) ==
    /\ Alive
    /\ cli[c] \in {"connected", "shut"}
    /\ sndbuf[c] > 0
    /\ sndbuf' = [sndbuf EXCEPT ![c] = @ - 1]
    /\ ops' = << >>
    /\ UNCHANGED << srvVars, acceptq, cli, rbuf, histVars, muxVars >>

\* The client ends its stream (FIN): the server's read returns b"" once it has
\* read everything the client sent.
ClientClose(c) ==
    /\ Alive
    /\ cli[c] = "connected"
    /\ Cardinality({ d \in Conns : cli[d] = "shut" }) < MaxCloses
    /\ cli' = [cli EXCEPT ![c] = "shut"]
    /\ ops' = << >>
    /\ UNCHANGED << srvVars, acceptq, rbuf, sndbuf, histVars, muxVars >>

\* The client aborts the connection (RST).  Whether bytes the server has not
\* read yet can still be read afterwards is up to the platform (keep).
ClientReset(c, keep) ==
    /\ Alive
    /\ cli[c] = "connected"
    /\ Cardinality({ d \in Conns : cli[d] = "reset" }) < MaxResets
    /\ cli' = [cli EXCEPT ![c] = "reset"]
    /\ rbuf' = [rbuf EXCEPT ![c] = IF keep THEN @ ELSE << >>]
    /\ ops' = << >>
    /\ UNCHANGED << srvVars, acceptq, sndbuf, histVars, muxVars >>

\* ---------------------------------------------------------------- Spec
ServerStep ==
    \/ ServerSocketEnter
    \/ Listen
    \/ Select
    \/ LoopBack
    \/ AcceptClient
    \/ ProcessClientIo
    \/ SendAll
    \/ ServerSocketExit

ClientStep ==
    \/ \E c \in Conns : ClientConnect(c)
    \/ \E c \in Conns, b \in Payloads : ClientSend(c, b)
    \/ \E c \in Conns : ClientRecv(c)
    \/ \E c \in Conns : ClientClose(c)
    \/ \E c \in Conns, keep \in BOOLEAN : ClientReset(c, keep)

Next == ServerStep \/ ClientStep

Spec == Init /\ [][Next]_vars

\* The event loop runs the server coroutine whenever it can take a step; the
\* clients and the network owe the server nothing.
FairSpec == Spec /\ WF_vars(ServerStep)

\* ----------------------------------------------- the selector on its own
\* SpecMux drives the selector of line 30 with every register and unregister
\* call on a descriptor number, as selector.register(fd, EVENT_READ, data=tag)
\* and selector.unregister(fd) would, and records each call's outcome.
MuxFds == 1..MaxMuxFd

MuxRegister(fd, tag) ==
    /\ muxn < MuxSteps
    /\ LET r == register(table, fd, fd, tag)
       IN /\ table' = r.table
          /\ muxlast' = [call |-> "register", fd |-> fd, err |-> r.err, before |-> table]
    /\ muxn' = muxn + 1
    /\ UNCHANGED << pc, lsock, events, sock, fdOf, nonblock, pending, exc, netVars,
                    histVars, ops >>

MuxUnregister(fd) ==
    /\ muxn < MuxSteps
    /\ LET r == unregister(table, fd, fd)
       IN /\ table' = r.table
          /\ muxlast' = [call |-> "unregister", fd |-> fd, err |-> r.err, before |-> table]
    /\ muxn' = muxn + 1
    /\ UNCHANGED << pc, lsock, events, sock, fdOf, nonblock, pending, exc, netVars,
                    histVars, ops >>

NextMux ==
    \/ \E fd \in MuxFds, tag \in {TagAccept, TagData} : MuxRegister(fd, tag)
    \/ \E fd \in MuxFds : MuxUnregister(fd)

SpecMux == Init /\ [][NextMux]_vars

\* ------------------------------------- the selector shared with other code
\* Other code registers its descriptor with the selector of line 30.
ForeignRegister ==
    /\ Alive
    /\ ~IsRegistered(table, ForeignObj)
    /\ table' = register(table, ForeignObj, ForeignFd, TagForeign).table
    /\ ops' = << >>
    /\ UNCHANGED << pc, lsock, events, sock, fdOf, nonblock, pending, exc,
                    netVars, histVars, muxVars >>

\* case _, lines 139-140: logger.error(f"Unknown event: {key.data}"), and the
\* for-loop goes on to the next entry.
UnknownTag_Raise ==
    /\ pc = "dispatch"
    /\ events # << >>
    /\ Head(events).data \notin {TagAccept, TagData}
    /\ events' = Tail(events)
    /\ pc' = "finally"
    /\ exc' = [type |-> "ValueError", call |-> "match", conn |-> 0]
    /\ ops' = << Op("log_error", Head(events).fileobj, TRUE) >>
    /\ UNCHANGED << lsock, table, sock, fdOf, nonblock, pending,
                    netVars, histVars, muxVars >>

UnknownTag ==
    /\ pc = "dispatch"
    /\ events # << >>
    /\ Head(events).data \notin {TagAccept, TagData}
    /\ events' = Tail(events)
    /\ ops' = << Op("log_error", Head(events).fileobj, TRUE) >>
    /\ UNCHANGED << pc, lsock, table, sock, fdOf, nonblock, pending, exc,
                    netVars, histVars, muxVars >>

\* SpecTag is the server in a process where other code shares the selector,
\* with clients that connect, write, read and end their streams.
NextTag ==
    \/ ServerStep
    \/ ForeignRegister
    \/ UnknownTag
    \/ \E c \in Conns : ClientConnect(c)
    \/ \E c \in Conns, b \in Payloads : ClientSend(c, b)
    \/ \E c \in Conns : ClientRecv(c)
    \/ \E c \in Conns : ClientClose(c)

SpecTag == Init /\ [][NextTag]_vars

\* ------------------------------------------------- reads of a full chunk
\* SpecChunk is the server with clients whose writes are about as long as one
\* read takes, on a network that delivers every write whole before the server
\* reads.
ChunkConns == 1..MaxChunkConns

NextChunk ==
    \/ ServerSocketEnter
    \/ Listen
    \/ Select
    \/ LoopBack
    \/ AcceptClient
    \/ ProcessClientIoBulk
    \/ SendAll
    \/ ServerSocketExit
    \/ \E c \in ChunkConns : ClientConnect(c)
    \/ \E c \in ChunkConns, b \in LongPayloads : ClientSend(c, b)
    \/ \E c \in ChunkConns : ClientRecv(c)
    \/ \E c \in ChunkConns : ClientClose(c)

SpecChunk == Init /\ [][NextChunk]_vars

\* ====================================================================
\* Properties
\* ====================================================================
Bodies(ws) == [i \in 1..Len(ws) |-> ws[i].body]
IoOps == {"accept", "recv", "send"}
LoopLeft == pc \in {"finally", "exited"}

C2_ResponseIsolation ==
    \A c \in Conns :
        /\ \A i \in 1..Len(written[c]) : written[c][i].peer = PeerName(c)
        /\ IsPrefix(Concat(Bodies(written[c])), Concat(sent[c]))
        /\ (pc = "sendall" /\ pending.conn = c) =>
               /\ pending.payload.peer = PeerName(c)
               /\ IsPrefix(Concat(Bodies(written[c])) \o pending.payload.body,
                           Concat(sent[c]))

\* C2 witness: three connections are open at once, each was written a
\* response, and two of the clients sent different payloads.
C2_Witness ==
    /\ \A c \in {1, 2, 3} : sock[c] = "open" /\ written[c] # << >>
    /\ sent[1] # sent[2]

\* C3: peer close.  A read that returns zero bytes is followed, in the same
\* handler, by unregister and then close of that connection and by nothing
\* else: no response is written.  No read or write is made on a closed
\* connection, and a closed connection stays closed and unregistered.
ZeroRead == ops # << >> /\ ops[1].op = "recv" /\ ops[1].n = 0

C3_ClosedOnZeroRead ==
    ZeroRead =>
        LET c == ops[1].s
        IN /\ Len(ops) = 3
           /\ ops[2].op = "unregister" /\ ops[2].s = c /\ ops[2].reg
           /\ ops[3].op = "close" /\ ops[3].s = c /\ ~ops[3].reg
           /\ sock[c] = "closed" /\ fdOf[c] = NoFd
           /\ ~IsRegistered(table, c)
           /\ pc = "dispatch" /\ pending = NoPending

C3_NoIoOnClosed ==
    \A i \in DOMAIN ops :
        (ops[i].op \in {"recv", "send"} /\ sock[ops[i].s] = "closed")
            => /\ ZeroRead
               /\ i = 1

C3_ClosedForGood ==
    \A c \in Conns :
        sock[c] = "closed" =>
            /\ sock'[c] = "closed"
            /\ written'[c] = written[c]
            /\ reads'[c] = reads[c]
            /\ ~IsRegistered(table', c)

C4_FaultIsolation ==
    exc.call \in {"recv", "send"} =>
        /\ ~LoopLeft
        /\ IsRegistered(table, Listener)
        /\ sock[exc.conn] = "closed"
        /\ \A c \in Conns \ {exc.conn} : sock[c] = "open" => IsRegistered(table, c)

\* C5 (as stated): once the server has started, nothing the clients do makes
\* the loop exit.
C5_LoopNeverExits == ~LoopLeft

\* C6: registration uniqueness.  The selector holds at most one entry per
\* descriptor; register on a registered descriptor raises the duplicate error
\* and unregister on an absent one the not-registered error, and both leave the
\* table as it was; the other calls succeed, adding or removing that one entry.
C6_AtMostOneEntry ==
    \A k1, k2 \in table : k1.fd = k2.fd => k1 = k2

C6_CallOutcome ==
    LET present == muxlast.fd \in RegisteredFds(muxlast.before)
    IN /\ (muxlast.call = "register" /\ present) =>
              muxlast.err = "KeyError: already registered" /\ table = muxlast.before
       /\ (muxlast.call = "register" /\ ~present) =>
              /\ muxlast.err = "none"
              /\ \E k \in table : k.fd = muxlast.fd /\ table \ {k} = muxlast.before
       /\ (muxlast.call = "unregister" /\ ~present) =>
              muxlast.err = "KeyError: not registered" /\ table = muxlast.before
       /\ (muxlast.call = "unregister" /\ present) =>
              /\ muxlast.err = "none"
              /\ table = { k \in muxlast.before : k.fd # muxlast.fd }

\* C6, whole: at most one entry per descriptor, and every call has the
\* outcome above.
C6_RegistrationUnique == C6_AtMostOneEntry /\ C6_CallOutcome

\* C6 witness: a register call failed on a registered descriptor while another
\* descriptor was registered too.
C6_Witness ==
    /\ muxlast.call = "register"
    /\ muxlast.err = "KeyError: already registered"
    /\ Cardinality(table) >= 2

\* C7: every entry of the registration table is the listening socket, bound or
\* listening, or a connection socket that is open, under the descriptor
\* number that socket has: no closed socket is registered.
C7_RegisteredAreOpen ==
    \A k \in table :
        IF k.fileobj = Listener
        THEN lsock.state \in {"bound", "listening"} /\ lsock.fd = k.fd
        ELSE sock[k.fileobj] = "open" /\ fdOf[k.fileobj] = k.fd

\* C7 witness: a connection has been closed while the listening socket and
\* another connection are registered.
C7_Witness ==
    /\ \E c \in Conns : sock[c] = "closed"
    /\ IsRegistered(table, Listener)
    /\ \E c \in Conns : IsRegistered(table, c)

\* C8: every accept, read and write is made on a socket that is registered
\* with the selector at the moment of the call.
C8_IoOnlyWhileRegistered ==
    \A i \in DOMAIN ops : ops[i].op \in IoOps => ops[i].reg

\* C8 witness: a connection has just been closed on a zero-byte read and the
\* next entry of the same batch is the listening socket's: a close and an
\* accept in one poll round.
C8_Witness ==
    /\ ZeroRead
    /\ events # << >>
    /\ Head(events).data = TagAccept
    /\ acceptq # << >>

\* C9 (as stated): while sock_sendall waits for room in one connection's send
\* buffer, the loop keeps polling and serves the other descriptors that are
\* ready.
Suspended ==
    /\ pc = "sendall"
    /\ sock[pending.conn] = "open"
    /\ cli[pending.conn] # "reset"
    /\ sndbuf[pending.conn] >= SndBufCap

C9_SuspensionDoesNotStall ==
    (Suspended /\ \E k \in ReadyKeys : k.fileobj # pending.conn)
        => ENABLED (Select \/ LoopBack \/ AcceptClient \/ ProcessClientIo)

\* C10 (as stated): every registered descriptor that is ready is eventually
\* served, however slow the other clients are.  A loop that has been left
\* serves nothing (C5); such a run is not counted against this claim, so that
\* what refutes it is starvation while the loop is still running.
Served(obj) ==
    \E i \in DOMAIN ops :
        /\ ops[i].s = obj
        /\ ops[i].op = (IF obj = Listener THEN "accept" ELSE "recv")

C10_NoStarvation ==
    \A obj \in {Listener} \cup Conns :
        (IsRegistered(table, obj) /\ Readable(obj)) ~> (Served(obj) \/ LoopLeft)

UnknownEntryNext ==
    /\ pc = "dispatch"
    /\ events # << >>
    /\ Head(events).data \notin {TagAccept, TagData}

C12_UnknownEntryStep ==
    (UnknownEntryNext /\ << pc, events, table, exc >> # << pc', events', table', exc' >>) =>
        /\ events' = Tail(events)
        /\ ops' = << Op("log_error", Head(events).fileobj, TRUE) >>
        /\ pc' = "dispatch"
        /\ exc' = NoExc
        /\ UNCHANGED << lsock, table, sock, fdOf, nonblock, pending, netVars, histVars >>

C12_LoopGoesOn ==
    (ops # << >> /\ ops[1].op = "log_error") =>
        /\ Len(ops) = 1
        /\ pc = "dispatch"
        /\ exc = NoExc
        /\ IF events = << >> THEN ENABLED LoopBack
           ELSE ENABLED (UnknownTag \/ AcceptClient \/ ProcessClientIo)

C12_UnknownTagNonFatal == [][C12_UnknownEntryStep]_vars /\ []C12_LoopGoesOn

\* C12 witness: an entry with an unknown tag has just been logged, a
\* connection's entry is next in the same batch, and the server has echoed to
\* a connection in a round before this one.
C12_Witness ==
    /\ ops = << Op("log_error", ForeignObj, TRUE) >>
    /\ pc = "dispatch"
    /\ events # << >>
    /\ Head(events).data = TagData
    /\ \E c \in Conns : written[c] # << >>

\* C13: batch processing order.  The batch changes only by a poll, made when
\* the batch before it is used up, or by the dispatch of its first entry; a
\* handler (accept or read) starts only in the dispatch loop and only for the
\* first entry not yet dispatched; while a handler is still inside its write
\* nothing is dispatched and no poll is made.
HandlerStarts == ops' # << >> /\ ops'[1].op \in {"accept", "recv"}

C13_BatchStep ==
    /\ events' # events =>
          \/ /\ pc = "poll" /\ events = << >>
             /\ ops' = << Op("select", Listener, IsRegistered(table, Listener)) >>
          \/ /\ pc = "dispatch" /\ events # << >>
             /\ events' = Tail(events)
             /\ HandlerStarts
    /\ HandlerStarts =>
          /\ pc = "dispatch" /\ events # << >>
          /\ ops'[1].s = Head(events).fileobj
          /\ ops'[1].op = (IF Head(events).data = TagAccept THEN "accept" ELSE "recv")
          /\ events' = Tail(events)
    /\ (ops' # << >> /\ ops'[1].op = "select") => pc = "poll" /\ events = << >>
    /\ pc = "sendall" => events' = events /\ pc' \in {"sendall", "dispatch", "finally"}

C13_PollOnEmptyBatch ==
    /\ pc \in {"start", "listen", "poll"} => events = << >>
    /\ pc = "sendall" => pending # NoPending

C13_BatchOrder == [][C13_BatchStep]_vars /\ []C13_PollOnEmptyBatch

\* C13 witness: the handler of the first entry of a batch of three is inside
\* its write while the two other entries wait, a connection's before the
\* listening socket's.
C13_Witness ==
    /\ pc = "sendall"
    /\ Len(events) = 2
    /\ events[1].data = TagData
    /\ events[2].data = TagAccept

\* C14 (as stated): eager chunk echo.  A data-available entry is served by
\* exactly one read, of at most 1024 bytes; every non-empty read result is
\* written back, whole and once, before the connection is read again, so that
\* once its handler is over every read has its response; and the bodies
\* written to a connection are, in order, the results of its reads, whose
\* concatenation is a prefix of what its client sent: a message longer than
\* one read is echoed as several units in order.
ReadsOf(os) == { i \in DOMAIN os : os[i].op = "recv" }

C14_OneReadPerEvent ==
    (ops # << >> /\ ops[1].op = "recv") =>
        /\ ReadsOf(ops) = {1}
        /\ ops[1].n <= RecvMax
        /\ \A c \in Conns : \A i \in 1..Len(reads[c]) : Len(reads[c][i]) \in 1..RecvMax

C14_UnitsInOrder ==
    \A c \in Conns :
        /\ Len(written[c]) <= Len(reads[c])
        /\ Len(reads[c]) <= Len(written[c]) + 1
        /\ \A i \in 1..Len(written[c]) : written[c][i].body = reads[c][i]
        /\ IsPrefix(Concat(Bodies(written[c])), Concat(sent[c]))

C14_EveryReadWritten ==
    \A c \in Conns :
        ~(pc = "sendall" /\ pending.conn = c) => Len(written[c]) = Len(reads[c])

C14_EagerChunkEcho ==
    C14_OneReadPerEvent /\ C14_UnitsInOrder /\ C14_EveryReadWritten

\* C15: paired registration.  No register or unregister call the server makes
\* fails.  A connection socket becomes registered in one step only, the one
\* that accepts it, and unregistered in one step only, the one that closes it;
\* it is registered at no time before its accept or after its close.  The
\* listening socket becomes registered only as server_socket() starts and
\* unregistered only as it ends, after which nothing is registered again.
SelectorErrors ==
    {"ValueError", "KeyError: already registered", "KeyError: not registered"}

C15_NoCallFails ==
    /\ exc.call \notin {"register", "unregister"}
    /\ exc.type \notin SelectorErrors
    /\ \A i \in DOMAIN ops :
          /\ ops[i].op = "register" => ~ops[i].reg /\ IsRegistered(table, ops[i].s)
          /\ ops[i].op = "unregister" => ops[i].reg /\ ~IsRegistered(table, ops[i].s)
    /\ \A c \in Conns : sock[c] \in {"unborn", "queued", "closed"} => ~IsRegistered(table, c)

C15_PairedSteps ==
    /\ \A c \in Conns :
          /\ (~IsRegistered(table, c) /\ IsRegistered(table', c)) =>
                 /\ sock[c] = "queued" /\ sock'[c] = "open"
                 /\ ops'[1].op = "accept" /\ ops'[3] = Op("register", c, FALSE)
          /\ (IsRegistered(table, c) /\ ~IsRegistered(table', c)) =>
                 /\ sock[c] = "open" /\ sock'[c] = "closed"
                 /\ ops'[2] = Op("unregister", c, TRUE)
          /\ sock[c] = "closed" => ~IsRegistered(table', c)
    /\ (~IsRegistered(table, Listener) /\ IsRegistered(table', Listener)) =>
          pc = "start" /\ lsock.state = "none"
    /\ (IsRegistered(table, Listener) /\ ~IsRegistered(table', Listener)) =>
          pc = "finally" /\ pc' = "exited"
    /\ pc = "exited" => table' = table

C15_PairedRegistration == []C15_NoCallFails /\ [][C15_PairedSteps]_vars

\* C15 witness: a connection is open and registered under a descriptor number
\* lower than the one its place in the accept order gives it, the number an
\* earlier connection had until the server closed it.
C15_Witness ==
    \E c, d \in Conns :
        /\ c < d
        /\ sock[c] = "closed"
        /\ sock[d] = "open"
        /\ IsRegistered(table, d)
        /\ fdOf[d] <= d

\* C16: tag binding.  In the registration table and in every batch, the entry
\* of the listening socket, and no other, carries the connection-available
\* tag, and the entry of a connection socket the data-available tag; accept is
\* only called on the listening socket and read only on connection sockets;
\* no entry ever reaches the unknown-tag branch.
TagBound(k) ==
    /\ k.data \in {TagAccept, TagData}
    /\ k.data = TagAccept <=> k.fileobj = Listener
    /\ k.data = TagData <=> k.fileobj \in Conns

C16_TagBinding ==
    /\ \A k \in table : TagBound(k)
    /\ \A i \in DOMAIN events : TagBound(events[i])
    /\ \A i \in DOMAIN ops :
          /\ ops[i].op = "accept" => ops[i].s = Listener
          /\ ops[i].op \in {"recv", "send"} => ops[i].s \in Conns
          /\ ops[i].op # "log_error"
    /\ ~ENABLED UnknownTag

\* C16 witness: the listening socket and two connections are registered, and
\* the batch being dispatched holds entries of both kinds.
C16_Witness ==
    /\ Cardinality(table) = 3
    /\ pc = "dispatch"
    /\ \E i \in DOMAIN events : events[i].data = TagAccept
    /\ \E i \in DOMAIN events : events[i].data = TagData

\* C17: every accepted connection is watched.  The step that accepts a
\* connection also sets it non-blocking and registers it, in that order, under
\* the data-available tag and its own descriptor number; in every state, and so
\* at every poll, the connection sockets registered are exactly the accepted
\* connections the server has not closed, and their descriptor numbers are the
\* ones registered besides the listening socket's.
OpenConns == { c \in Conns : sock[c] = "open" }

C17_AcceptRegisters ==
    (ops # << >> /\ ops[1].op = "accept") =>
        /\ Len(ops) = 3
        /\ \E c \in OpenConns :
              /\ ops[2] = Op("setblocking", c, FALSE)
              /\ ops[3] = Op("register", c, FALSE)
              /\ nonblock[c]
              /\ Key(c, fdOf[c], TagData) \in table

C17_WatchedAreOpen ==
    /\ { k.fileobj : k \in table } \ {Listener} = OpenConns
    /\ { k.fd : k \in { j \in table : j.fileobj # Listener } } = { fdOf[c] : c \in OpenConns }
    /\ \A c \in OpenConns : nonblock[c] /\ Key(c, fdOf[c], TagData) \in table

C17_AcceptedAreWatched == C17_AcceptRegisters /\ C17_WatchedAreOpen

\* C17 witness: the loop is at its poll with two connections open and
\* registered, a third one closed and a write of the server unread.
C17_Witness ==
    /\ pc = "poll"
    /\ Cardinality(OpenConns) = 2
    /\ \E c \in Conns : sock[c] = "closed"
    /\ \E c \in OpenConns : sndbuf[c] > 0

\* C18 (as stated): the listening socket is registered only once it is bound,
\* non-blocking and listening: in every state in which it is registered, and
\* so at every poll, it is all three.
C18_ListeningWhenRegistered ==
    IsRegistered(table, Listener) =>
        /\ lsock.state = "listening"
        /\ lsock.nonblocking
        /\ lsock.fd # NoFd

\* C18 (amended): server_socket() binds the socket, sets it non-blocking and
\* registers it, in that order, and main() calls listen() on the registered
\* socket afterwards, before its first poll.  In every state in which the
\* listening socket is registered it is bound and non-blocking; at every poll,
\* and as long as the loop runs, it is registered, bound, non-blocking and
\* listening.
OpNames(os) == [i \in DOMAIN os |-> os[i].op]

C18_ListeningAtPoll ==
    /\ IsRegistered(table, Listener) =>
          /\ lsock.state \in {"bound", "listening"}
          /\ lsock.nonblocking
          /\ Key(Listener, lsock.fd, TagAccept) \in table
    /\ pc \in {"poll", "dispatch", "sendall"} =>
          /\ IsRegistered(table, Listener)
          /\ lsock.state = "listening"
    /\ pc = "listen" => IsRegistered(table, Listener) /\ lsock.state = "bound"
    /\ (ops # << >> /\ ops[1].op = "socket") =>
          OpNames(ops) = << "socket", "bind", "setblocking", "register" >>
    /\ (ops # << >> /\ ops[1].op = "listen") => ops[1].reg /\ Len(ops) = 1
    /\ (ops # << >> /\ ops[1].op = "select") => lsock.state = "listening"

\* C18 witness: the loop is at its poll while a connection waits in the
\* accept queue of the registered listening socket and another is open.
C18_Witness ==
    /\ pc = "poll"
    /\ IsRegistered(table, Listener)
    /\ lsock.state = "listening"
    /\ acceptq # << >>
    /\ OpenConns # {}

\* C19: listening endpoint close.  An exception that leaves the loop is
\* followed by one step of the server only: the listening socket is
\* unregistered and then closed, both calls succeed whatever connections are
\* open, and no connection is touched.  The listening socket is unregistered
\* and closed in no other step, and once main() is over it is neither
\* registered nor open, for good.
ListenerCloses ==
    \E i \in DOMAIN ops' : ops'[i].s = Listener /\ ops'[i].op \in {"unregister", "close"}

C19_ExitStep ==
    /\ (pc = "finally" /\ << pc, lsock, table >> # << pc', lsock', table' >>) =>
          /\ pc' = "exited"
          /\ ops' = << Op("unregister", Listener, TRUE), Op("close", Listener, FALSE) >>
          /\ lsock'.state = "closed" /\ lsock'.fd = NoFd
          /\ table' = { k \in table : k.fileobj # Listener }
          /\ UNCHANGED << sock, fdOf, exc >>
    /\ ListenerCloses => pc = "finally" /\ lsock.state = "listening"
    /\ lsock.state = "closed" => lsock' = lsock /\ table' = table /\ ~ListenerCloses

C19_ClosedAfterExit ==
    /\ pc = "finally" =>
          /\ exc # NoExc
          /\ IsRegistered(table, Listener)
          /\ lsock.state = "listening"
          /\ ENABLED ServerSocketExit
    /\ pc = "exited" =>
          /\ ~IsRegistered(table, Listener)
          /\ lsock.state = "closed"
          /\ lsock.fd = NoFd
          /\ exc.call \notin {"register", "unregister"}
    /\ lsock.state = "closed" <=> pc = "exited"

C19_ListenerClose == [][C19_ExitStep]_vars /\ []C19_ClosedAfterExit

\* C19 witness: main() is over after an exception raised by a write; the
\* listening socket is closed while two connections are still open and
\* registered.
C19_Witness ==
    /\ pc = "exited"
    /\ exc.call = "send"
    /\ lsock.state = "closed"
    /\ Cardinality(OpenConns) = 2
    /\ \A c \in OpenConns : IsRegistered(table, c)

====
